---- MODULE Spec2Model ----
(***************************************************************************)
(* Model of card-cashback-demo (src/app.py): the reward-rate resolver      *)
(* find_best_rate_for_card and the comparison handler main().              *)
(*                                                                         *)
(* Conventions of the model                                                *)
(*  - A Python str is a sequence of one-glyph strings.  ASCII letters are  *)
(*    themselves; a CJK glyph is written by its pinyin ("yi","ban","xiao", *)
(*    "fei" spell the four glyphs of the general-spending tag of line 55). *)
(*  - A float is an integer; NaN (an empty spreadsheet cell read by        *)
(*    pandas) is the reserved value NaN.  rate_percent is in percent,      *)
(*    amount in NT$, and a reward is kept as amount * rate, i.e. in        *)
(*    hundredths of NT$: dividing by 100.0 (line 139) is strictly monotone *)
(*    and is left to the display.                                          *)
(*  - A DataFrame is a sequence of rows (records); a cards row is a        *)
(*    record that has the key general_rate_percent iff the cards sheet has *)
(*    that column.                                                         *)
(*  - pandas' sort_values is called with its default kind ("quicksort"),   *)
(*    which numpy does not promise to be stable: the order among rows with *)
(*    equal keys is a nondeterministic choice.                             *)
(*  - Lines 164-177 of app.py are indented out of main(); the model        *)
(*    follows main() up to the best row of line 162.                       *)
(***************************************************************************)
EXTENDS Integers, Sequences, FiniteSets, TLC

\* ------------------------------------------------------------------ bounds
MaxRules == 2
MaxNameLen == 1
MaxAmount == 2

\* ------------------------------------------------------------------ values
\* float("nan"), and the NaN cell of a text column.
NaN == 0 - 1

nan_cell == <<"NaN">>

SeqsUpTo(S, n) == UNION {[1..k -> S] : k \in 0..n}

Range(s) == {s[i] : i \in DOMAIN s}

\* str.lower() on one glyph, for the letters the model uses.
Lower(c) ==
    CASE c = "A" -> "a"
      [] c = "B" -> "b"
      [] c = "N" -> "n"
      [] c = "T" -> "t"
      [] c = "Y" -> "y"
      [] OTHER -> c

\* re.compile(pat): over the glyphs of the model the only pattern that does
\* not compile is one with an opening parenthesis (no ")" ever closes it):
\* re.error "missing ), unterminated subpattern".
re_compiles(pat) == \A k \in DOMAIN pat : pat[k] # "("

\* One pattern glyph against one subject glyph under re.IGNORECASE: "." is
\* any glyph, every other glyph of the model is a literal.
re_glyph(p, c) == p = "." \/ Lower(p) = Lower(c)

\* re.compile(pat, re.IGNORECASE).search(s) is not None, for a pattern that
\* compiles.  The empty pattern is found in every subject, the empty one too.
re_search(pat, s) ==
    \E i \in 0..(Len(s) - Len(pat)) :
        \A k \in 1..Len(pat) : re_glyph(pat[k], s[i + k])

\* Series.str.contains(pat, case=False, na=False) on one cell; regex=True is
\* the default.  Called only with a pattern that compiles.
str_contains(cell, pat) == cell # nan_cell /\ re_search(pat, cell)

\* Series.fillna("") on one cell of merchant_keywords.
fillna(cell) == IF cell = nan_cell THEN <<>> ELSE cell

\* f"{rate:.2f}" for a rate of whole percents; float("nan") prints as nan.
fmt_2f(rate) == IF rate = NaN THEN <<"nan">> ELSE <<ToString(rate), ".", "00">>

\* The tag of line 55 (yi ban xiao fei, "general spending").
general_tag == <<"yi", "ban", "xiao", "fei">>

\* ---------------------------------------------------- find_best_rate_for_card

\* rules_df[rules_df["card_id"] == card_id].copy(), then line 38's fillna on
\* the merchant_keywords column.
card_rules_of(card_row, rules_df) ==
    LET own(r) == r.card_id = card_row.card_id
        filled(r) == [r EXCEPT !.merchant_keywords = fillna(r.merchant_keywords)]
        mine == SelectSeq(rules_df, own)
    IN  [i \in DOMAIN mine |-> filled(mine[i])]

\* Lines 39-44: the three-way mask (channel isin, category isin, keywords
\* contain the merchant name as a case-insensitive regular expression).
special_mask(r, merchant_name, spend_channel, merchant_category) ==
    /\ r.spend_channel \in {spend_channel, "all"}
    /\ r.merchant_category \in {merchant_category, "all"}
    /\ str_contains(r.merchant_keywords, merchant_name)

special_rules_of(card_rules, merchant_name, spend_channel, merchant_category) ==
    LET hit(r) == special_mask(r, merchant_name, spend_channel, merchant_category)
    IN  SelectSeq(card_rules, hit)

\* Line 55: the rules whose rule_name contains the general-spending tag.
general_rule_of(card_rules) ==
    LET tagged(r) == str_contains(r.rule_name, general_tag)
    IN  SelectSeq(card_rules, tagged)

\* sort_values_first with the ascending flag lost: always the least priority.
sort_values_first_ascending_only(rows, ascending) ==
    {rows[i] : i \in {j \in DOMAIN rows :
        \A k \in DOMAIN rows : rows[j].priority <= rows[k].priority}}

\* rows.sort_values("priority", ascending=...).iloc[0]: the rows that can come
\* first, i.e. those of least (ascending) or greatest (descending) priority.
sort_values_first(rows, ascending) ==
    {rows[i] : i \in {j \in DOMAIN rows :
        \A k \in DOMAIN rows :
            IF ascending THEN rows[j].priority <= rows[k].priority
                         ELSE rows[j].priority >= rows[k].priority}}

\* The four return statements and the error of re.compile.  "line" is the
\* source line of the return (of the failing call for a raise).
return_special(best_rule) ==
    [kind |-> "return", line |-> 51, rate |-> best_rule.rate_percent,
     desc |-> best_rule.rule_name \o <<"(">> \o fmt_2f(best_rule.rate_percent)
              \o <<"%)">>]

return_general(general_rule) ==
    [kind |-> "return", line |-> 60, rate |-> general_rule.rate_percent,
     desc |-> general_rule.rule_name \o <<"(">> \o general_tag \o <<" ">>
              \o fmt_2f(general_rule.rate_percent) \o <<"%)">>]

return_card_default(card_row) ==
    [kind |-> "return", line |-> 66, rate |-> card_row.general_rate_percent,
     desc |-> general_tag \o <<"(", "ka", "pian", "ji", "ben", "hui", "kui", " ">>
              \o fmt_2f(card_row.general_rate_percent) \o <<"%)">>]

return_not_found ==
    [kind |-> "return", line |-> 69, rate |-> 0,
     desc |-> <<"wei", "zhao", "dao", "hui", "kui", "gui", "ze">>]

raise_re_error ==
    [kind |-> "raise", line |-> 43, rate |-> NaN, desc |-> <<"re.error">>]

\* Line 63: "general_rate_percent" in card_row tests the key, not the value.
has_general_rate(card_row) == "general_rate_percent" \in DOMAIN card_row

\* The outcomes one call can have (more than one only when the sort of line
\* 48 or 57 meets equal priorities).
find_best_rate_for_card(card_row, rules_df, merchant_name, spend_channel, merchant_category) ==
    LET card_rules == card_rules_of(card_row, rules_df)
        special_rules == special_rules_of(card_rules, merchant_name,
                                          spend_channel, merchant_category)
        general_rule == general_rule_of(card_rules)
    IN  IF ~re_compiles(merchant_name) THEN {raise_re_error}
        ELSE IF special_rules # <<>>
            THEN {return_special(r) : r \in sort_values_first(special_rules, TRUE)}
        ELSE IF general_rule # <<>>
            THEN {return_general(r) : r \in sort_values_first(general_rule, FALSE)}
        ELSE IF has_general_rate(card_row)
            THEN {return_card_default(card_row)}
        ELSE {return_not_found}

\* ------------------------------------------------------------------ main()

\* Line 81: card_display_map, card_id -> display name.
card_display_map ==
    [cathay_cube |-> "CUBE", fubon_j |-> "J", ctbc_linepay |-> "LINE Pay"]

\* Line 103: merchant_options (YouTube, Netflix, xia pi gou wu).
merchant_options ==
    { <<"Y", "o", "u", "T", "u", "b", "e">>,
      <<"N", "e", "t", "f", "l", "i", "x">>,
      <<"xia", "pi", "gou", "wu">> }

\* Lines 88-89: the cards of the sheet that the map names, with display_name.
mapped_cards(df) ==
    LET known(c) == c.card_id \in DOMAIN card_display_map
        kept == SelectSeq(df, known)
    IN  [k \in DOMAIN kept |->
            [f \in DOMAIN kept[k] \cup {"display_name"} |->
                IF f = "display_name" THEN card_display_map[kept[k].card_id]
                ELSE kept[k][f]]]

\* Line 95: card_choices.
card_choices(df) == {mapped_cards(df)[k].display_name : k \in DOMAIN mapped_cards(df)}

\* Lines 121-122: display name -> card_id.
display_to_id(name) ==
    CHOOSE id \in DOMAIN card_display_map : card_display_map[id] = name

\* Line 129: cards_df[cards_df["card_id"] == card_id].iloc[0].
card_row_of(df, card_id) ==
    LET same(c) == c.card_id = card_id
    IN  Head(SelectSeq(mapped_cards(df), same))

\* reward_of with the amount left out.
reward_of_rate_only(amt, rate) == rate

\* Line 139: amount * rate (/ 100.0 left to the display); NaN propagates.
reward_of(amt, rate) == IF rate = NaN THEN NaN ELSE amt * rate

\* Lines 141-148: one row of results.
result_row(row, r, amt) ==
    [bank |-> row.bank, display_name |-> row.display_name, rate |-> r.rate,
     reward |-> reward_of(amt, r.rate), rule_desc |-> r.desc]

\* The order sort_values(by=reward, ascending=False) guarantees between a row
\* placed before and a row placed after: a NaN reward is never before a
\* number (na_position="last"), and a number never before a greater number.
may_precede(a, b) ==
    IF a.reward = NaN THEN b.reward = NaN
    ELSE b.reward = NaN \/ a.reward >= b.reward

\* sort_values_desc with ascending=False lost: smallest reward first.
sort_values_asc(rows) ==
    LET n == Len(rows)
        perms == {p \in [1..n -> 1..n] : \A a, b \in 1..n : a # b => p[a] # p[b]}
        pick(p) == [k \in 1..n |-> rows[p[k]]]
    IN  {pick(p) : p \in {q \in perms :
            \A a, b \in 1..n : a < b => may_precede(rows[q[b]], rows[q[a]])}}

\* Lines 156-159: the frames sort_values(...).reset_index(drop=True) can give.
sort_values_desc(rows) ==
    LET n == Len(rows)
        perms == {p \in [1..n -> 1..n] : \A a, b \in 1..n : a # b => p[a] # p[b]}
        pick(p) == [k \in 1..n |-> rows[p[k]]]
    IN  {pick(p) : p \in {q \in perms :
            \A a, b \in 1..n : a < b => may_precede(rows[q[a]], rows[q[b]])}}

\* ------------------------------------------------------------------ inputs

\* Glyphs a caller can put in merchant_name: a letter in both cases and two
\* characters that re reads as syntax.
NameGlyphs == {"a", "A", ".", "("}

Channels == {"online", "offline"}

Categories == {"online_digital", "travel"}

\* The card asked about in the resolver runs: without the general_rate_percent
\* column, with an empty cell, with a value.
ResolveCards ==
    {[card_id |-> "c1"]} \cup
    {[card_id |-> "c1", general_rate_percent |-> g] : g \in {NaN, 1}}

\* Rows of reward_rules for the resolver runs: two merchant promotions and a
\* general-spending rule, of the card asked about or of another card.
RuleShapes ==
    { [rule_name |-> <<"ying", "yin">>, spend_channel |-> "online",
       merchant_category |-> "online_digital", merchant_keywords |-> <<"a", "b">>],
      [rule_name |-> <<"wang", "gou">>, spend_channel |-> "all",
       merchant_category |-> "travel", merchant_keywords |-> <<" ", "A", ".">>],
      [rule_name |-> general_tag, spend_channel |-> "all",
       merchant_category |-> "all", merchant_keywords |-> nan_cell] }

ResolveRules ==
    { [card_id |-> c, rule_name |-> t.rule_name, spend_channel |-> t.spend_channel,
       merchant_category |-> t.merchant_category,
       merchant_keywords |-> t.merchant_keywords, priority |-> p, rate_percent |-> r] :
        c \in {"c1", "c2"}, t \in RuleShapes, p \in {1, 2}, r \in {3, 5} }

\* Sheets "cards" for the runs of main(): with the rate column (one cell
\* empty) and a card the map does not name; without the column; a shorter
\* sheet in another order.
CardSheets ==
    { << [card_id |-> "cathay_cube", bank |-> "Cathay", general_rate_percent |-> 1],
         [card_id |-> "other_card", bank |-> "Other", general_rate_percent |-> 9],
         [card_id |-> "fubon_j", bank |-> "Fubon", general_rate_percent |-> 3],
         [card_id |-> "ctbc_linepay", bank |-> "CTBC", general_rate_percent |-> NaN] >>,
      << [card_id |-> "cathay_cube", bank |-> "Cathay"],
         [card_id |-> "fubon_j", bank |-> "Fubon"],
         [card_id |-> "ctbc_linepay", bank |-> "CTBC"] >>,
      << [card_id |-> "fubon_j", bank |-> "Fubon", general_rate_percent |-> 1],
         [card_id |-> "cathay_cube", bank |-> "Cathay", general_rate_percent |-> 1] >> }

\* Rows of reward_rules for the runs of main().
AppRules ==
    { [card_id |-> "cathay_cube", rule_name |-> <<"ying", "yin">>,
       spend_channel |-> "online", merchant_category |-> "online_digital",
       merchant_keywords |-> <<"y", "o", "u", "t", "u", "b", "e", ",",
                               "n", "e", "t", "f", "l", "i", "x">>,
       priority |-> 1, rate_percent |-> 5],
      [card_id |-> "cathay_cube", rule_name |-> general_tag,
       spend_channel |-> "all", merchant_category |-> "all",
       merchant_keywords |-> nan_cell, priority |-> 9, rate_percent |-> 2],
      [card_id |-> "fubon_j", rule_name |-> <<"wang", "gou">>,
       spend_channel |-> "all", merchant_category |-> "all",
       merchant_keywords |-> <<"N", "e", "t", "f", "l", "i", "x", ",",
                               "xia", "pi">>,
       priority |-> 2, rate_percent |-> 5],
      [card_id |-> "ctbc_linepay", rule_name |-> general_tag \o <<"huo", "dong">>,
       spend_channel |-> "all", merchant_category |-> "all",
       merchant_keywords |-> nan_cell, priority |-> 9, rate_percent |-> 2] }

\* Line 107: number_input(min_value=0.0, step=100.0).
AmountValues == {100 * k : k \in 0..MaxAmount}

\* Line 96: what multiselect can return, the chosen names in the order chosen.
Selections(choices) ==
    {sel \in SeqsUpTo(choices, Cardinality(choices)) :
        \A a, b \in DOMAIN sel : a # b => sel[a] # sel[b]}

\* ------------------------------------------------------------------ state

VARIABLES
    cards_df,                \* sheet "cards" (line 14)
    rules_df,                \* sheet "reward_rules" (line 15)
    card_row,                \* resolver call: the card asked about
    merchant_name,           \* resolver call: merchant_name
    spend_channel,           \* resolver call: spend_channel
    merchant_category,       \* resolver call: merchant_category
    ret,                     \* resolver call: what the call ended with
    selected_cards_display,  \* line 96
    selected_merchant,       \* line 104
    amount,                  \* line 107
    pc,                      \* where the run is
    idx,                     \* position of the loop of line 128
    results,                 \* line 126
    results_df,              \* line 156
    best_row,                \* line 162, <<>> while unset
    warning,                 \* the st.warning shown, "" if none
    calls                    \* calls of find_best_rate_for_card made by main()

vars == << cards_df, rules_df, card_row, merchant_name, spend_channel,
           merchant_category, ret, selected_cards_display, selected_merchant,
           amount, pc, idx, results, results_df, best_row, warning, calls >>

no_call == [kind |-> "none", line |-> 0, rate |-> 0, desc |-> <<>>]

resolver_vars == << card_row, merchant_name, spend_channel, merchant_category, ret >>

main_vars == << cards_df, selected_cards_display, selected_merchant, amount, idx,
                results, results_df, best_row, warning, calls >>

\* --------------------------------------------- runs of find_best_rate_for_card

InitResolve ==
    /\ rules_df \in SeqsUpTo(ResolveRules, MaxRules)
    /\ card_row \in ResolveCards
    /\ merchant_name \in SeqsUpTo(NameGlyphs, MaxNameLen)
    /\ spend_channel \in Channels
    /\ merchant_category \in Categories
    /\ ret = no_call
    /\ pc = "call"
    /\ cards_df = <<>>
    /\ selected_cards_display = <<>>
    /\ selected_merchant = <<>>
    /\ amount = 0
    /\ idx = 0
    /\ results = <<>>
    /\ results_df = <<>>
    /\ best_row = <<>>
    /\ warning = ""
    /\ calls = 0

\* One call of find_best_rate_for_card (lines 20-69).
Call ==
    /\ pc = "call"
    /\ \E o \in find_best_rate_for_card(card_row, rules_df, merchant_name,
                                         spend_channel, merchant_category) :
        /\ ret' = o
        /\ pc' = IF o.kind = "raise" THEN "raised" ELSE "returned"
    /\ UNCHANGED << rules_df, card_row, merchant_name, spend_channel,
                    merchant_category, main_vars >>

NextResolve == Call

SpecResolve == InitResolve /\ [][NextResolve]_vars

\* ------------------------------------------------------------ runs of main()

Init ==
    /\ cards_df \in CardSheets
    /\ rules_df \in SeqsUpTo(AppRules, MaxRules)
    /\ selected_cards_display \in Selections(card_choices(cards_df))
    /\ selected_merchant \in merchant_options
    /\ amount \in AmountValues
    /\ pc = "line116"
    /\ idx = 0
    /\ results = <<>>
    /\ results_df = <<>>
    /\ best_row = <<>>
    /\ warning = ""
    /\ calls = 0
    /\ card_row = [card_id |-> "none"]
    /\ merchant_name = <<>>
    /\ spend_channel = "online"
    /\ merchant_category = "online_digital"
    /\ ret = no_call

\* EmptySelection with the return of line 118 lost: warn and go on.
EmptySelection_no_return ==
    /\ pc = "line116"
    /\ selected_cards_display = <<>>
    /\ warning' = "select_card"
    /\ pc' = "loop"
    /\ idx' = 1
    /\ UNCHANGED << cards_df, rules_df, resolver_vars, selected_cards_display,
                    selected_merchant, amount, results, results_df, best_row,
                    calls >>

\* Lines 116-118: nothing selected, warn and return.
EmptySelection ==
    /\ pc = "line116"
    /\ selected_cards_display = <<>>
    /\ warning' = "select_card"
    /\ pc' = "returned"
    /\ UNCHANGED << cards_df, rules_df, resolver_vars, selected_cards_display,
                    selected_merchant, amount, idx, results, results_df,
                    best_row, calls >>

\* Line 125, button not pressed: the run ends with the inputs shown only.
ButtonIdle ==
    /\ pc = "line116"
    /\ selected_cards_display # <<>>
    /\ pc' = "end"
    /\ UNCHANGED << cards_df, rules_df, resolver_vars, main_vars >>

\* Lines 120-126: button pressed, results = [].
ButtonClicked ==
    /\ pc = "line116"
    /\ selected_cards_display # <<>>
    /\ pc' = "loop"
    /\ idx' = 1
    /\ results' = <<>>
    /\ UNCHANGED << cards_df, rules_df, resolver_vars, selected_cards_display,
                    selected_merchant, amount, results_df, best_row, warning,
                    calls >>

\* Lines 128-148: one turn of the loop over selected_card_ids.
LoopBody ==
    /\ pc = "loop"
    /\ idx <= Len(selected_cards_display)
    /\ LET card_id == display_to_id(selected_cards_display[idx])
           row == card_row_of(cards_df, card_id)
       IN  /\ card_row' = row
           /\ \E o \in find_best_rate_for_card(row, rules_df, selected_merchant,
                                                "online", "online_digital") :
               /\ ret' = o
               /\ IF o.kind = "raise"
                  THEN /\ pc' = "raised"
                       /\ UNCHANGED << idx, results >>
                  ELSE /\ pc' = "loop"
                       /\ idx' = idx + 1
                       /\ results' = Append(results, result_row(row, o, amount))
    /\ calls' = calls + 1
    /\ UNCHANGED << cards_df, rules_df, merchant_name, spend_channel,
                    merchant_category, selected_cards_display, selected_merchant,
                    amount, results_df, best_row, warning >>

\* Lines 150-162: after the loop, warn on no results, else sort and take the
\* first row as the best.
SortAndShow ==
    /\ pc = "loop"
    /\ idx > Len(selected_cards_display)
    /\ IF results = <<>>
       THEN /\ warning' = "no_rules"
            /\ pc' = "returned"
            /\ UNCHANGED << results_df, best_row >>
       ELSE /\ \E df \in sort_values_desc(results) :
                /\ results_df' = df
                /\ best_row' = << df[1] >>
            /\ pc' = "shown"
            /\ UNCHANGED warning
    /\ UNCHANGED << cards_df, rules_df, resolver_vars, selected_cards_display,
                    selected_merchant, amount, idx, results, calls >>

Next ==
    \/ EmptySelection
    \/ ButtonIdle
    \/ ButtonClicked
    \/ LoopBody
    \/ SortAndShow

Spec == Init /\ [][Next]_vars

\* ------------------------------------------------------------------ claims

\* The rules of the card asked about, and the two filters of the call, as the
\* code computes them.
cr == card_rules_of(card_row, rules_df)

sp == special_rules_of(cr, merchant_name, spend_channel, merchant_category)

gen == general_rule_of(cr)

\* The padded merchant name of C10.
Pad(name) == <<" ">> \o name \o <<" ">>

\* name is a substring of text, letter case ignored (the matching C5 states).
IsSubstringCI(name, text) ==
    \E i \in 0..(Len(text) - Len(name)) :
        \A k \in 1..Len(name) : Lower(name[k]) = Lower(text[i + k])

\* C1: every call returns the result of the first tier that applies, in the
\* order special match (line 51), general-spending rule (line 60), the card's
\* general_rate_percent (line 66), rate 0 (line 69).
C1_FirstTierReturned ==
    pc # "call" =>
        /\ ret.kind = "return"
        /\ IF sp # <<>> THEN \E k \in DOMAIN sp : ret = return_special(sp[k])
           ELSE IF gen # <<>> THEN \E k \in DOMAIN gen : ret = return_general(gen[k])
           ELSE IF has_general_rate(card_row) THEN ret = return_card_default(card_row)
           ELSE ret = return_not_found

\* The part of C1 that the code keeps: a call that returns, returns the
\* result of the first tier that applies.
TierOrderWhenReturned ==
    pc = "returned" =>
        IF sp # <<>> THEN ret.line = 51 /\ \E k \in DOMAIN sp : ret = return_special(sp[k])
        ELSE IF gen # <<>>
            THEN ret.line = 60 /\ \E k \in DOMAIN gen : ret = return_general(gen[k])
        ELSE IF has_general_rate(card_row)
            THEN ret.line = 66 /\ ret = return_card_default(card_row)
        ELSE ret.line = 69 /\ ret = return_not_found

C2_WitnessGeneral ==
    /\ pc = "returned"
    /\ Len(sp) = 0
    /\ Len(gen) = 2
    /\ gen[1].priority > gen[2].priority
    /\ gen[1].rate_percent # gen[2].rate_percent
    /\ ret.rate = gen[1].rate_percent

\* C3: the call is total, it ends with a (rate, description) for every
\* merchant name, channel and category.
C3_Total == pc # "call" => ret.kind = "return"

\* The Tier-1 candidates as C5 states them.
claimed_candidates ==
    {r \in Range(rules_df) :
        /\ r.card_id = card_row.card_id
        /\ r.spend_channel \in {spend_channel, "all"}
        /\ r.merchant_category \in {merchant_category, "all"}
        /\ IsSubstringCI(merchant_name, fillna(r.merchant_keywords))}

\* C5: the call ends with a Tier-1 result exactly when some rule of the card
\* has a matching (or "all") channel and category and keywords that contain
\* the merchant name as a case-insensitive substring, and that result is the
\* one of such a rule.
C5_Tier1Candidates ==
    pc # "call" =>
        /\ (claimed_candidates # {}) <=> (ret.kind = "return" /\ ret.line = 51)
        /\ ret.line = 51 => \E r \in claimed_candidates : ret = return_special(r)

\* C6: a Tier-1 result never rests on rules without keywords: some rule of
\* the card with non-empty keywords passes the filter of lines 39-44.
C6_EmptyKeywordsNeverMatch ==
    (pc = "returned" /\ ret.line = 51) =>
        \E k \in DOMAIN sp : sp[k].merchant_keywords # <<>> /\ ret = return_special(sp[k])

\* The card carries a general_rate_percent value (the cell is not empty).
has_rate_value(row) == has_general_rate(row) /\ row.general_rate_percent # NaN

\* C7: with no Tier-1 match, no general-spending rule and no
\* general_rate_percent value, the call returns rate 0 and the "no rule
\* found" description; and every returned rate is a number >= 0.
C7_NoDataIsZero ==
    pc = "returned" =>
        /\ (sp = <<>> /\ gen = <<>> /\ ~has_rate_value(card_row)) =>
                ret = return_not_found
        /\ ret.rate # NaN /\ ret.rate >= 0

\* C10: what the call returns for a (non-empty) merchant_name is what it can
\* return for the same name between a leading and a trailing space.
C10_PaddingInsignificant ==
    (pc # "call" /\ merchant_name # <<>>) =>
        ret \in find_best_rate_for_card(card_row, rules_df, Pad(merchant_name),
                                        spend_channel, merchant_category)

\* Float comparison: false as soon as one side is NaN.
Gt(x, y) == x # NaN /\ y # NaN /\ x > y

\* The position of a row of results_df in results, the input order.
input_pos(e) == CHOOSE k \in DOMAIN results : results[k] = e

\* C4 as stated: the shown list is ordered by reward descending, rows of
\* equal reward by rate descending (so by rate when amount = 0), rows equal
\* on both in input order.
C4_RewardThenRateThenInput ==
    pc = "shown" =>
        \A a, b \in DOMAIN results_df :
            (a < b /\ results_df[a].reward # NaN /\ results_df[b].reward # NaN) =>
                /\ results_df[a].reward >= results_df[b].reward
                /\ results_df[a].reward = results_df[b].reward =>
                        results_df[a].rate >= results_df[b].rate
                /\ (/\ results_df[a].reward = results_df[b].reward
                    /\ results_df[a].rate = results_df[b].rate) =>
                        input_pos(results_df[a]) < input_pos(results_df[b])

\* C4 as amended: the shown list holds the rows of results, each once,
\* ordered by reward descending with the NaN rewards last.
C4_SortedByReward ==
    pc = "shown" =>
        /\ Len(results_df) = Len(results)
        /\ Range(results_df) = Range(results)
        /\ \A a, b \in DOMAIN results_df :
            a < b =>
                /\ results_df[a].reward = NaN => results_df[b].reward = NaN
                /\ ~Gt(results_df[b].reward, results_df[a].reward)

\* C4's case: the loop collected a smaller reward before a greater one, and
\* the shown list has them the other way round.
C4_Witness ==
    /\ pc = "shown"
    /\ Len(results) >= 2
    /\ Gt(results[2].reward, results[1].reward)
    /\ results_df[1].reward >= results[2].reward

\* C8: the shown list has exactly one row per selected card, with the rate
\* and description the resolver gives for that card and the reward amount *
\* rate; the best row is the first of the list and no row has a strictly
\* larger reward.
C8_OneRowPerCard ==
    pc = "shown" =>
        /\ Len(results_df) = Len(selected_cards_display)
        /\ \A s \in DOMAIN selected_cards_display :
            \E k \in DOMAIN results_df :
                /\ results_df[k].display_name = selected_cards_display[s]
                /\ \A j \in DOMAIN results_df :
                       results_df[j].display_name = selected_cards_display[s] => j = k
                /\ \E o \in find_best_rate_for_card(
                           card_row_of(cards_df, display_to_id(selected_cards_display[s])),
                           rules_df, selected_merchant, "online", "online_digital") :
                       /\ o.kind = "return"
                       /\ results_df[k].rate = o.rate
                       /\ results_df[k].rule_desc = o.desc
                /\ results_df[k].reward =
                       IF results_df[k].rate = NaN THEN NaN
                       ELSE amount * results_df[k].rate
        /\ best_row = << results_df[1] >>
        /\ \A k \in DOMAIN results_df : ~Gt(results_df[k].reward, best_row[1].reward)

\* C8's case: three cards selected, a positive amount, three different
\* rewards, the greatest of them collected last and shown as the best.
C8_Witness ==
    /\ pc = "shown"
    /\ Len(selected_cards_display) = 3
    /\ amount > 0
    /\ Gt(results[3].reward, results[1].reward)
    /\ Gt(results[1].reward, results[2].reward)
    /\ best_row = << results[3] >>

====
